---- MODULE Spec2Model ----
(***************************************************************************)
(* Model of the combi-dex auction engine: the settlement loop              *)
(* (auction/src/clearing.rs) and the combinatorial clock auction           *)
(* (auction/src/cca_auction.rs) with the helpers they call                 *)
(* (model/src/model.rs, model/src/helpers.rs, auction/src/wdp.rs).         *)
(*                                                                         *)
(* f64 values are modelled in fixed point: money in whole units,           *)
(* quantities and quantity fractions in hundredths (One = 1.0), divisions  *)
(* rounded down.  An Arc<User> is a user id plus the strong count of the   *)
(* record it points to; the record's only mutable field is its balance.    *)
(***************************************************************************)
EXTENDS Integers, Sequences, FiniteSets, TLC

VARIABLES
    balance,          \* User.balance of every user record
    balance0,         \* the balances before the call
    strong,           \* Arc strong count of every user record
    handles,          \* Arc handles the caller keeps besides the bids
    winning_bids,     \* clear_winning_bids: the batch argument
    k,                \* clear_winning_bids: position of the next bid in the batch
    users,            \* clear_winning_bids: keys of the `users` map
    outcome,          \* clear_winning_bids: "running", "ok", "err" or "panic"
    bids,             \* run_auction: the bids argument
    basket,           \* run_auction: the basket argument
    initial_prices,   \* run_auction: the initial_prices argument
    price_increment,  \* run_auction: the price_increment argument, a fraction
    max_rounds,       \* run_auction: the max_rounds argument
    prices,           \* run_auction: the side price table
    active_bidders,   \* run_auction: the eligible bidder ids
    best_bids,        \* run_auction: valid bids of the last non-final round
    best_allocation,  \* run_auction: allocation of best_bids
    round,            \* run_auction: the loop counter
    evals,            \* number of calls of evaluate_bids_in_round so far
    last_round,       \* what the last round or call computed before it ended
    pc,               \* "idle", "loop", "returned", "panicked"; "call" before
                      \* and the function's name after a single function call
    ret               \* the tuple run_auction returned

vars == <<balance, balance0, strong, handles, winning_bids, k, users, outcome,
          bids, basket, initial_prices, price_increment, max_rounds, prices,
          active_bidders, best_bids, best_allocation, round, evals,
          last_round, pc, ret>>

cca_vars == <<bids, basket, initial_prices, price_increment, max_rounds,
              prices, active_bidders, best_bids, best_allocation, round,
              evals, last_round, pc, ret>>

----------------------------------------------------------------------------
(* Bounds of the explored inputs *)

MaxBids == 3       \* longest bid list
MaxRounds == 3     \* largest max_rounds
MaxHandles == 1    \* most extra Arc handles a caller keeps per user

----------------------------------------------------------------------------
(* Numbers and options *)

One == 100

None == <<>>

Some(q) == <<q>>

unwrap_or(o, d) == IF o = None THEN d ELSE o[1]

Min(a, b) == IF a <= b THEN a ELSE b

EmptyMap == <<>>

BoundedSeq(S, n) == UNION {[1..m -> S] : m \in 0..n}

----------------------------------------------------------------------------
(* model.rs: User, AssetInfo, Basket, Bid *)

UserIds == {1, 2, 3}

can_afford(bal, amount) == bal >= amount

withdraw(bal, amount) == bal - amount

AssetInfo(base, quantity, price) ==
    [asset |-> base, quantity |-> quantity, price |-> price]

Bid(user, basket_id, price, quantity) ==
    [user |-> user, basket_id |-> basket_id, price |-> price,
     quantity |-> quantity]

\* is_valid with a quantity of zero let through
is_valid_zero_quantity(bid, bal) ==
    /\ can_afford(bal[bid.user], bid.price)
    /\ bid.price > 0
    /\ (bid.quantity = None
        \/ (bid.quantity[1] >= 0 /\ bid.quantity[1] <= One))

is_valid(bid, bal) ==
    /\ can_afford(bal[bid.user], bid.price)
    /\ bid.price > 0
    /\ (bid.quantity = None
        \/ (bid.quantity[1] > 0 /\ bid.quantity[1] <= One))

\* Number of bids of a list that hold a handle to user u
RECURSIVE CountUser(_, _)
CountUser(s, u) ==
    IF s = <<>> THEN 0
    ELSE (IF Head(s).user = u THEN 1 ELSE 0) + CountUser(Tail(s), u)

\* Sum of the prices of the bids of user u in a list
RECURSIVE PricesOf(_, _)
PricesOf(s, u) ==
    IF s = <<>> THEN 0
    ELSE (IF Head(s).user = u THEN Head(s).price ELSE 0) + PricesOf(Tail(s), u)

BidderIds(s) == {s[i].user : i \in DOMAIN s}

----------------------------------------------------------------------------
(* The inputs explored *)

TestBasket ==
    [id |-> 1, assets |-> <<AssetInfo("BTC", 2 * One, 30000),
                            AssetInfo("ETH", 5 * One, 2000)>>]

ScarceBasket ==
    [id |-> 1, assets |-> <<AssetInfo("BTC", One, 100000),
                            AssetInfo("ETH", 5 * One, 2000)>>]

Baskets == {TestBasket, ScarceBasket}

BidPool ==
    { Bid(1, 1, 60000, Some(50)),
      Bid(2, 1, 70000, Some(75)),
      Bid(1, 1, 80000, Some(50)),
      Bid(1, 1, 60000, Some(One)),
      Bid(3, 1, 80000, Some(50)),
      Bid(3, 1, 80000, None),
      Bid(2, 2, 70000, Some(One)),
      Bid(2, 1, 70000, Some(150)) }

BalanceChoices ==
    { <<1000000, 2000000, 3000000>>,
      <<100000, 200000, 50000>> }

----------------------------------------------------------------------------
(* clearing.rs: Clearing::clear_winning_bids *)

\* Arc::get_mut gives the record only to the sole handle
Arc_get_mut(strong_count) == strong_count = 1

\* The state of one call: the `users` map, the records, the loop position
ClearStart(bal, str) ==
    [users |-> {}, balance |-> bal, strong |-> str, outcome |-> "running",
     k |-> 1]

\* Handles that are dropped when the call ends at position st.k:
\* the bids not yet consumed, and the map unless it is returned
DropAll(st, batch, keep_map) ==
    [u \in UserIds |->
        st.strong[u]
        - CountUser(SubSeq(batch, st.k, Len(batch)), u)
        - (IF u \in st.users /\ ~keep_map THEN 1 ELSE 0)]

\* ClearBid with the withdrawal made before the affordability check
ClearBid_withdraw_first(st, batch) ==
    LET bid == batch[st.k]
        user_id == bid.user
        price == bid.price
        users1 == st.users \cup {user_id}
        strong1 == IF user_id \in st.users THEN st.strong
                   ELSE [st.strong EXCEPT ![user_id] = @ + 1]
        st1 == [st EXCEPT !.users = users1, !.strong = strong1,
                          !.balance[user_id] = withdraw(@, price)]
    IN  IF ~can_afford(st.balance[user_id], price)
        THEN [st1 EXCEPT !.outcome = "err",
                         !.strong = DropAll(st1, batch, FALSE)]
        ELSE [st1 EXCEPT !.strong[user_id] = @ - 1, !.k = @ + 1]

\* One iteration of the loop over winning_bids
ClearBid(st, batch) ==
    LET bid == batch[st.k]
        user_id == bid.user
        price == bid.price
        \* users.entry(user_id).or_insert_with(|| Arc::clone(&bid.user))
        users1 == st.users \cup {user_id}
        strong1 == IF user_id \in st.users THEN st.strong
                   ELSE [st.strong EXCEPT ![user_id] = @ + 1]
        st1 == [st EXCEPT !.users = users1, !.strong = strong1]
    IN  IF ~can_afford(st.balance[user_id], price)
        THEN [st1 EXCEPT !.outcome = "err",
                         !.strong = DropAll(st1, batch, FALSE)]
        ELSE IF ~Arc_get_mut(strong1[user_id])
        THEN [st1 EXCEPT !.outcome = "panic",
                         !.strong = DropAll(st1, batch, FALSE)]
        ELSE [st1 EXCEPT !.balance[user_id] = withdraw(@, price),
                         !.strong[user_id] = @ - 1,
                         !.k = @ + 1]

\* Leaving the loop: Ok(users)
ClearOk(st, batch) ==
    [st EXCEPT !.outcome = "ok", !.strong = DropAll(st, batch, TRUE)]

RECURSIVE clear_loop(_, _)
clear_loop(st, batch) ==
    IF st.outcome # "running" THEN st
    ELSE IF st.k > Len(batch) THEN ClearOk(st, batch)
    ELSE clear_loop(ClearBid(st, batch), batch)

clear_winning_bids(batch, bal, str) == clear_loop(ClearStart(bal, str), batch)

\* The returned map: id -> balance of the record
UsersMap(st) == [u \in st.users |-> st.balance[u]]

----------------------------------------------------------------------------
(* Specification SpecClearing: one call of clear_winning_bids on a batch,  *)
(* one loop iteration per step                                             *)

ClearingState ==
    [users |-> users, balance |-> balance, strong |-> strong,
     outcome |-> outcome, k |-> k]

SetClearingState(st) ==
    /\ users' = st.users
    /\ balance' = st.balance
    /\ strong' = st.strong
    /\ outcome' = st.outcome
    /\ k' = st.k

NoAuction ==
    /\ bids = <<>>
    /\ basket = TestBasket
    /\ initial_prices = EmptyMap
    /\ price_increment = [num |-> 0, den |-> 1]
    /\ max_rounds = 0
    /\ prices = EmptyMap
    /\ active_bidders = {}
    /\ best_bids = <<>>
    /\ best_allocation = EmptyMap
    /\ round = 0
    /\ evals = 0
    /\ last_round = EmptyMap
    /\ pc = "idle"
    /\ ret = EmptyMap

InitClearing ==
    /\ balance0 \in BalanceChoices
    /\ balance = balance0
    /\ winning_bids \in BoundedSeq(BidPool, MaxBids)
    /\ handles \in [UserIds -> 0..MaxHandles]
    /\ strong = [u \in UserIds |-> CountUser(winning_bids, u) + handles[u]]
    /\ k = 1
    /\ users = {}
    /\ outcome = "running"
    /\ NoAuction

ClearStep ==
    /\ outcome = "running"
    /\ k <= Len(winning_bids)
    /\ SetClearingState(ClearBid(ClearingState, winning_bids))
    /\ UNCHANGED <<balance0, handles, winning_bids>>
    /\ UNCHANGED cca_vars

ClearReturn ==
    /\ outcome = "running"
    /\ k > Len(winning_bids)
    /\ SetClearingState(ClearOk(ClearingState, winning_bids))
    /\ UNCHANGED <<balance0, handles, winning_bids>>
    /\ UNCHANGED cca_vars

NextClearing == ClearStep \/ ClearReturn

SpecClearing == InitClearing /\ [][NextClearing]_vars

----------------------------------------------------------------------------
(* helpers.rs: filter_valid_bids;  wdp.rs: WDPSolver::maximize_welfare_cca *)

filter_valid_bids_any_basket(bs, bsk, bal) ==
    SelectSeq(bs, LAMBDA bid : is_valid(bid, bal))

filter_valid_bids(bs, bsk, bal) ==
    SelectSeq(bs, LAMBDA bid : bid.basket_id = bsk.id /\ is_valid(bid, bal))

AssetNames(bsk) == {bsk.assets[i].asset : i \in DOMAIN bsk.assets}

bid_demand_halved(bid, asset_info) ==
    (unwrap_or(bid.quantity, One) * asset_info.quantity) \div (2 * One)

\* bid.quantity.unwrap_or(1.0) * asset_info.quantity
bid_demand(bid, asset_info) ==
    (unwrap_or(bid.quantity, One) * asset_info.quantity) \div One

\* The loop over valid_bids, from position i with accumulator acc
RECURSIVE welfare_cca_loop(_, _, _, _)
welfare_cca_loop(valid_bids, bsk, i, acc) ==
    IF i > Len(valid_bids) THEN acc
    ELSE
      LET bid == valid_bids[i]
          can_fulfill_bid ==
              \A j \in DOMAIN bsk.assets :
                  ~(bid_demand(bid, bsk.assets[j])
                      > acc.remaining_assets[bsk.assets[j].asset])
          deducted ==
              [a \in DOMAIN acc.remaining_assets |->
                  LET j == CHOOSE j \in DOMAIN bsk.assets :
                               bsk.assets[j].asset = a
                  IN  acc.remaining_assets[a] - bid_demand(bid, bsk.assets[j])]
      IN  IF bid.user \in acc.selected_users
          THEN welfare_cca_loop(valid_bids, bsk, i + 1, acc)
          ELSE IF can_fulfill_bid
          THEN welfare_cca_loop(valid_bids, bsk, i + 1,
                  [selected_bids |-> Append(acc.selected_bids, bid),
                   total_value |-> acc.total_value + bid.price,
                   remaining_assets |-> deducted,
                   selected_users |-> acc.selected_users \cup {bid.user}])
          ELSE welfare_cca_loop(valid_bids, bsk, i + 1, acc)

maximize_welfare_cca_reversed(bs, bsk, bal) ==
    LET valid_bids == filter_valid_bids(bs, bsk, bal)
        n == Len(valid_bids)
        remaining == [a \in AssetNames(bsk) |->
                        LET j == CHOOSE j \in DOMAIN bsk.assets :
                                     bsk.assets[j].asset = a
                        IN  bsk.assets[j].quantity]
    IN  welfare_cca_loop([i \in 1..n |-> valid_bids[n + 1 - i]], bsk, 1,
            [selected_bids |-> <<>>, total_value |-> 0,
             remaining_assets |-> remaining, selected_users |-> {}])

maximize_welfare_cca(bs, bsk, bal) ==
    LET valid_bids == filter_valid_bids(bs, bsk, bal)
        remaining == [a \in AssetNames(bsk) |->
                        LET j == CHOOSE j \in DOMAIN bsk.assets :
                                     bsk.assets[j].asset = a
                        IN  bsk.assets[j].quantity]
    IN  welfare_cca_loop(valid_bids, bsk, 1,
            [selected_bids |-> <<>>, total_value |-> 0,
             remaining_assets |-> remaining, selected_users |-> {}])

----------------------------------------------------------------------------
(* cca_auction.rs: the helpers of CombiClockAuction *)

\* *prices.get(base).unwrap_or(&asset_info.price)
current_price(asset_info, table) ==
    IF asset_info.asset \in DOMAIN table THEN table[asset_info.asset]
    ELSE asset_info.price

\* requested_quantity.min(bid.price / current_price)
actual_demand(bid, asset_info, table) ==
    Min(unwrap_or(bid.quantity, One),
        (bid.price * One) \div current_price(asset_info, table))

RECURSIVE total_demand(_, _, _)
total_demand(valid_bids, asset_info, table) ==
    IF valid_bids = <<>> THEN 0
    ELSE actual_demand(Head(valid_bids), asset_info, table)
         + total_demand(Tail(valid_bids), asset_info, table)

\* evaluate_bids_in_round counting a bid as valid only while its price
\* covers its share of every asset at the current price
evaluate_bids_in_round_priced(bs, bsk, table, active, bal) ==
    LET valid_bids ==
            SelectSeq(bs, LAMBDA bid :
                /\ bid.user \in active
                /\ is_valid(bid, bal)
                /\ \A j \in DOMAIN bsk.assets :
                      bid.price * One
                          >= bid_demand(bid, bsk.assets[j])
                             * current_price(bsk.assets[j], table))
        over == {j \in DOMAIN bsk.assets :
                    total_demand(valid_bids, bsk.assets[j], table)
                        > bsk.assets[j].quantity}
        excess_demand ==
            [a \in {bsk.assets[j].asset : j \in over} |->
                LET j == CHOOSE j \in over : bsk.assets[j].asset = a
                IN  total_demand(valid_bids, bsk.assets[j], table)
                    - bsk.assets[j].quantity]
    IN  [valid_bids |-> valid_bids, excess_demand |-> excess_demand]

evaluate_bids_in_round(bs, bsk, table, active, bal) ==
    LET valid_bids ==
            SelectSeq(bs, LAMBDA bid : bid.user \in active /\ is_valid(bid, bal))
        over == {j \in DOMAIN bsk.assets :
                    total_demand(valid_bids, bsk.assets[j], table)
                        > bsk.assets[j].quantity}
        excess_demand ==
            [a \in {bsk.assets[j].asset : j \in over} |->
                LET j == CHOOSE j \in over : bsk.assets[j].asset = a
                IN  total_demand(valid_bids, bsk.assets[j], table)
                    - bsk.assets[j].quantity]
    IN  [valid_bids |-> valid_bids, excess_demand |-> excess_demand]

\* current_prices.get(asset).unwrap() fails on an asset the table lacks
update_prices_panics(current_prices, excess_demand) ==
    \E a \in DOMAIN excess_demand :
        excess_demand[a] > 0 /\ a \notin DOMAIN current_prices

\* raised_price with the increment subtracted
raised_price_lowered(current, excess, base) ==
    current - (base.num * (current * One + 10 * excess)) \div (base.den * One)

\* current_price * (1 + base * (1 + excess / current_price * 10)), which is
\* current_price + base * (current_price + 10 * excess)
raised_price(current, excess, base) ==
    current + (base.num * (current * One + 10 * excess)) \div (base.den * One)

update_prices(current_prices, excess_demand, base_price_increment) ==
    [a \in DOMAIN current_prices |->
        IF a \in DOMAIN excess_demand /\ excess_demand[a] > 0
        THEN raised_price(current_prices[a], excess_demand[a],
                          base_price_increment)
        ELSE current_prices[a]]

\* apply_activity_rule with a set difference for the intersection
apply_activity_rule_difference(active, valid_bids) ==
    active \ BidderIds(valid_bids)

apply_activity_rule(active, valid_bids) ==
    active \cap BidderIds(valid_bids)

\* The assets allocated to one bid: one entry per basket asset that has a
\* final price
RECURSIVE allocated_assets(_, _, _)
allocated_assets(bid, assets, final_prices) ==
    IF assets = <<>> THEN <<>>
    ELSE
      LET asset_info == Head(assets)
          proportion == unwrap_or(bid.quantity, One)
          allocated_quantity == (asset_info.quantity * proportion) \div One
          allocated_value ==
              (allocated_quantity * final_prices[asset_info.asset]) \div One
          rest == allocated_assets(bid, Tail(assets), final_prices)
      IN  IF asset_info.asset \in DOMAIN final_prices
          THEN <<AssetInfo(asset_info.asset, allocated_quantity,
                           allocated_value)>> \o rest
          ELSE rest

\* allocation.insert(bid.user.id, allocated_assets) for every bid in order
RECURSIVE allocate_assets(_, _, _)
allocate_assets(valid_bids, bsk, final_prices) ==
    IF valid_bids = <<>> THEN EmptyMap
    ELSE
      LET n == Len(valid_bids)
          bid == valid_bids[n]
          before == allocate_assets(SubSeq(valid_bids, 1, n - 1), bsk,
                                    final_prices)
      IN  (bid.user :> allocated_assets(bid, bsk.assets, final_prices))
              @@ before

----------------------------------------------------------------------------
(* Specification Spec: one call of CombiClockAuction::run_auction, one     *)
(* round of the loop per step                                              *)

FullPrices(bsk) ==
    [a \in AssetNames(bsk) |->
        LET j == CHOOSE j \in DOMAIN bsk.assets : bsk.assets[j].asset = a
        IN  bsk.assets[j].price]

\* A table that has no entry for the first asset of the basket
PartialPrices(bsk) ==
    [a \in AssetNames(bsk) \ {bsk.assets[1].asset} |-> FullPrices(bsk)[a]]

PriceTables(bsk) == {FullPrices(bsk), PartialPrices(bsk)}

Increments == {[num |-> 0, den |-> 10], [num |-> 1, den |-> 10]}

\* test_cca_auction_no_excess_demand
Scenario1Rounds == 10

Scenario1Bids ==
    << Bid(1, 1, 60000, Some(50)),
       Bid(2, 1, 70000, Some(75)),
       Bid(1, 1, 80000, Some(50)) >>

Scenario1 ==
    /\ balance0 = <<1000000, 2000000, 3000000>>
    /\ bids = Scenario1Bids
    /\ basket = TestBasket
    /\ initial_prices = FullPrices(TestBasket)
    /\ price_increment = [num |-> 1, den |-> 10]
    /\ max_rounds = Scenario1Rounds

Init ==
    /\ \/ /\ balance0 \in BalanceChoices
          /\ bids \in BoundedSeq(BidPool, MaxBids)
          /\ basket \in Baskets
          /\ initial_prices \in PriceTables(basket)
          /\ price_increment \in Increments
          /\ max_rounds \in 0..MaxRounds
       \/ Scenario1
    /\ balance = balance0
    /\ handles = [u \in UserIds |-> 0]
    /\ strong = [u \in UserIds |-> CountUser(bids, u) + handles[u]]
    /\ winning_bids = <<>>
    /\ k = 1
    /\ users = {}
    /\ outcome = "running"
    \* let mut prices = initial_prices.clone(); ... best_bids = Vec::new()
    /\ prices = initial_prices
    /\ active_bidders = BidderIds(bids)
    /\ best_bids = <<>>
    /\ best_allocation = EmptyMap
    /\ round = 0
    /\ evals = 0
    /\ last_round = EmptyMap
    /\ pc = "loop"
    /\ ret = EmptyMap

ThisRound ==
    evaluate_bids_in_round(bids, basket, prices, active_bidders, balance)

\* Clearing::clear_winning_bids(best_bids.clone(), best_allocation.clone())
\* .unwrap(), then the return of (winners, allocation, result)
Settle(winners, allocation, owned) ==
    LET str == [u \in UserIds |->
                   strong[u] + CountUser(owned, u) + CountUser(best_bids, u)]
        result == clear_winning_bids(best_bids, balance, str)
    IN  /\ winning_bids' = best_bids
        /\ users' = result.users
        /\ balance' = result.balance
        /\ outcome' = result.outcome
        /\ k' = result.k
        /\ IF result.outcome = "ok"
           THEN /\ pc' = "returned"
                /\ ret' = [winning_bids |-> winners,
                           allocation |-> allocation,
                           result |-> UsersMap(result)]
                /\ strong' = [u \in UserIds |->
                                 result.strong[u] - CountUser(best_bids, u)]
           ELSE /\ pc' = "panicked"
                /\ ret' = EmptyMap
                /\ strong' = [u \in UserIds |->
                                 CountUser(bids, u) + handles[u]]

\* The two returns inside the loop (lines 119-123 and 128-132)
Finish(kind, ev) ==
    LET owned_valid_bids == ev.valid_bids
        wdp == maximize_welfare_cca(owned_valid_bids, basket, balance)
        allocation == allocate_assets(wdp.selected_bids, basket, prices)
    IN  /\ Settle(owned_valid_bids, allocation, owned_valid_bids)
        /\ evals' = evals + 1
        /\ last_round' = [kind |-> kind, round |-> round,
                          valid_bids |-> ev.valid_bids,
                          excess_demand |-> ev.excess_demand,
                          prices |-> prices]
        /\ UNCHANGED <<balance0, handles, bids, basket, initial_prices,
                       price_increment, max_rounds, prices, active_bidders,
                       best_bids, best_allocation, round>>

\* A round without excess demand
RoundConverged ==
    /\ pc = "loop"
    /\ round < max_rounds
    /\ DOMAIN ThisRound.excess_demand = {}
    /\ Finish("converged", ThisRound)

\* The last permitted round, with excess demand
RoundFallback ==
    /\ pc = "loop"
    /\ round < max_rounds
    /\ DOMAIN ThisRound.excess_demand # {}
    /\ round = max_rounds - 1
    /\ Finish("fallback", ThisRound)

\* basket_after_round with the new prices written into the basket
basket_repriced(bsk, new_prices) ==
    [bsk EXCEPT !.assets =
        [j \in DOMAIN bsk.assets |->
            IF bsk.assets[j].asset \in DOMAIN new_prices
            THEN [bsk.assets[j] EXCEPT !.price = new_prices[bsk.assets[j].asset]]
            ELSE bsk.assets[j]]]

\* run_auction holds the basket by shared reference (basket: &'a Basket):
\* the new prices go to the `prices` table only
basket_after_round(bsk, new_prices) == bsk

\* A round with excess demand that is not the last one
RoundContinue ==
    /\ pc = "loop"
    /\ round < max_rounds
    /\ DOMAIN ThisRound.excess_demand # {}
    /\ round # max_rounds - 1
    /\ evals' = evals + 1
    /\ last_round' = [kind |-> "continue", round |-> round,
                      valid_bids |-> ThisRound.valid_bids,
                      excess_demand |-> ThisRound.excess_demand,
                      prices |-> prices]
    /\ IF update_prices_panics(prices, ThisRound.excess_demand)
       THEN /\ pc' = "panicked"
            /\ UNCHANGED <<prices, active_bidders, best_bids,
                           best_allocation, round, strong>>
       ELSE /\ prices' = update_prices(prices, ThisRound.excess_demand,
                                       price_increment)
            /\ active_bidders' =
                   apply_activity_rule(active_bidders, ThisRound.valid_bids)
            /\ best_bids' = ThisRound.valid_bids
            /\ best_allocation' =
                   allocate_assets(best_bids', basket, prices')
            /\ round' = round + 1
            /\ strong' = [u \in UserIds |->
                             strong[u] - CountUser(best_bids, u)
                                       + CountUser(best_bids', u)]
            /\ pc' = "loop"
    /\ basket' = basket_after_round(basket, prices')
    /\ UNCHANGED <<balance, balance0, handles, winning_bids, k, users,
                   outcome, bids, initial_prices, price_increment,
                   max_rounds, ret>>

\* The loop ends without a return (lines 144-146)
LoopExit ==
    /\ pc = "loop"
    /\ round >= max_rounds
    /\ Settle(best_bids, best_allocation, <<>>)
    /\ last_round' = [kind |-> "exit", round |-> round,
                      valid_bids |-> <<>>, excess_demand |-> EmptyMap,
                      prices |-> prices]
    /\ UNCHANGED <<balance0, handles, bids, basket, initial_prices,
                   price_increment, max_rounds, prices, active_bidders,
                   best_bids, best_allocation, round, evals>>

Next == RoundConverged \/ RoundFallback \/ RoundContinue \/ LoopExit

Spec == Init /\ [][Next]_vars

----------------------------------------------------------------------------
(* Properties of clear_winning_bids, checked under SpecClearing *)

\* The balance the loop tracks for the bidder of bid i when it reaches bid i
Tracked(batch, bal, i) ==
    bal[batch[i].user] - PricesOf(SubSeq(batch, 1, i - 1), batch[i].user)

AllAffordable(batch, bal) ==
    \A i \in DOMAIN batch : Tracked(batch, bal, i) >= batch[i].price

\* C1: a batch in which every bid is affordable when it is processed ends
\* in Ok with one record per distinct bidder, whose balance is the balance
\* before the call minus the prices of that bidder's bids.
C1_SettledBalances ==
    (outcome # "running" /\ AllAffordable(winning_bids, balance0))
        => /\ outcome = "ok"
           /\ users = BidderIds(winning_bids)
           /\ \A u \in users :
                  balance[u] = balance0[u] - PricesOf(winning_bids, u)

\* C2: the call ends in the InsufficientFunds error exactly when some bid
\* costs more than its bidder's tracked balance, and in Ok otherwise.
C2_ErrIffUnaffordable ==
    outcome # "running"
        => /\ outcome = "err" <=> ~AllAffordable(winning_bids, balance0)
           /\ outcome \in {"ok", "err"}

\* C3: when the call fails with InsufficientFunds on bid k, no bid at
\* position k or later has been withdrawn: every balance is at least the
\* balance before the call minus the prices of that bidder's bids before k,
\* so the failing bid is not charged and a bidder with no bid before k
\* keeps its balance.
C3_NoWithdrawalFromFailure ==
    outcome = "err"
        => \A u \in UserIds :
               /\ balance[u] >= balance0[u]
                                - PricesOf(SubSeq(winning_bids, 1, k - 1), u)
               /\ balance[u] <= balance0[u]
               /\ (u \notin BidderIds(SubSeq(winning_bids, 1, k - 1))
                      => balance[u] = balance0[u])

\* A failure on a bid that other bidders' bids follow
C3_Witness ==
    /\ outcome = "err"
    /\ k < Len(winning_bids)
    /\ \E i \in (k + 1)..Len(winning_bids) :
           winning_bids[i].user # winning_bids[k].user

----------------------------------------------------------------------------
(* Properties of run_auction, checked under Spec *)

\* C4: with positive initial prices and a non-negative increment, no price
\* of the price table is lower after a round than before it.
C4_PricesNonDecreasing ==
    [][ ((\A a \in DOMAIN initial_prices : initial_prices[a] > 0)
          /\ price_increment.num >= 0)
        => \A a \in DOMAIN prices :
               a \in DOMAIN prices' /\ prices'[a] >= prices[a] ]_vars

\* Two rounds have raised a price
C4_Witness ==
    /\ round >= 2
    /\ \E a \in DOMAIN prices : prices[a] > initial_prices[a]

\* The bidders that have a valid bid in the current round
BiddersWithValidBid ==
    {u \in active_bidders :
        \E i \in DOMAIN bids : bids[i].user = u /\ is_valid(bids[i], balance)}

\* C5: the eligible set starts as the bidder ids of the input bids; every
\* round leaves a subset of it, namely the eligible bidders that had a
\* valid bid in the round, so a removed bidder never comes back.
C5_EligibleSetShrinks ==
    /\ active_bidders = {bids[i].user : i \in DOMAIN bids}
    /\ [][ /\ active_bidders' \subseteq active_bidders
           /\ (round' = round + 1
                  => active_bidders' = BiddersWithValidBid) ]_vars

\* A round has removed a bidder and left another one eligible
C5_Witness ==
    /\ round >= 1
    /\ active_bidders # {}
    /\ active_bidders # BidderIds(bids)

\* C6: run_auction evaluates demand at most max_rounds times and then
\* returns a result (stated for price tables that price every basket asset).
C6_ReturnsWithinBudget ==
    DOMAIN initial_prices = AssetNames(basket)
        => /\ evals <= max_rounds
           /\ (pc # "loop" => pc = "returned")

\* C7: a return from a round without excess demand reports as winners the
\* bids the greedy-capacity solver selected among the round's valid bids,
\* the bidders of the returned allocation.
C7_WinnersAreGreedySelection ==
    (pc = "returned" /\ last_round.kind = "converged")
        => /\ ret.winning_bids =
                  maximize_welfare_cca(last_round.valid_bids, basket,
                                       balance0).selected_bids
           /\ BidderIds(ret.winning_bids) = DOMAIN ret.allocation

\* C8: every bidder of a returned winning bid is in the returned settled
\* map with its balance before the auction minus the prices of its winning
\* bids.
C8_WinnersAreSettled ==
    pc = "returned"
        => \A i \in DOMAIN ret.winning_bids :
               LET u == ret.winning_bids[i].user
               IN  /\ u \in DOMAIN ret.result
                   /\ ret.result[u] =
                          balance0[u] - PricesOf(ret.winning_bids, u)

\* C9: Scenario 1 returns exactly 2 winning bids from a round without
\* excess demand.
C9_Scenario1TwoWinners ==
    (Scenario1 /\ pc # "loop")
        => /\ pc = "returned"
           /\ last_round.kind = "converged"
           /\ Len(ret.winning_bids) = 2

\* C10: when the last permitted round still has excess demand, run_auction
\* returns the greedy-capacity winners of that round's valid bids, their
\* allocation at that round's prices, and their settlement.
C10_FallbackUsesFinalRound ==
    (pc \in {"returned", "panicked"} /\ last_round.kind = "fallback")
        => LET winners ==
                   maximize_welfare_cca(last_round.valid_bids, basket,
                                        balance0).selected_bids
           IN  /\ pc = "returned"
               /\ last_round.round = max_rounds - 1
               /\ ret.winning_bids = winners
               /\ ret.allocation =
                      allocate_assets(winners, basket, last_round.prices)
               /\ ret.result =
                      [u \in BidderIds(winners) |->
                          balance0[u] - PricesOf(winners, u)]

----------------------------------------------------------------------------
(* Calls of single functions: the arguments are drawn by the initial       *)
(* predicate, the call stores what the function returns in ret             *)

\* No settlement and no clock auction is running
NoSettlement ==
    /\ handles = [u \in UserIds |-> 0]
    /\ strong = [u \in UserIds |-> CountUser(bids, u) + handles[u]]
    /\ winning_bids = <<>>
    /\ k = 1
    /\ users = {}
    /\ outcome = "running"

NoRound ==
    /\ initial_prices = EmptyMap
    /\ price_increment = [num |-> 0, den |-> 1]
    /\ max_rounds = 0
    /\ prices = EmptyMap
    /\ active_bidders = {}
    /\ best_bids = <<>>
    /\ best_allocation = EmptyMap
    /\ round = 0
    /\ evals = 0
    /\ last_round = EmptyMap
    /\ ret = EmptyMap

\* The call of function op returns value
Returns(op, value) ==
    /\ pc = "call"
    /\ pc' = op
    /\ ret' = value
    /\ UNCHANGED <<balance, balance0, strong, handles, winning_bids, k, users,
                   outcome, bids, basket, initial_prices, price_increment,
                   max_rounds, prices, active_bidders, best_bids,
                   best_allocation, round, evals, last_round>>

----------------------------------------------------------------------------
(* Specification SpecValid: one call of Bid::is_valid on one bid *)

ValidityBids ==
    {Bid(u, 1, p, q) :
        u \in UserIds,
        p \in {-100, 0, 50000, 60000, 80000},
        q \in {None, Some(0), Some(1), Some(50), Some(One), Some(One + 1),
               Some(150)}}

InitValid ==
    /\ balance0 \in BalanceChoices
    /\ balance = balance0
    /\ bids \in {<<b>> : b \in ValidityBids}
    /\ basket = TestBasket
    /\ pc = "call"
    /\ NoSettlement
    /\ NoRound

CallIsValid == Returns("is_valid", [valid |-> is_valid(bids[1], balance)])

NextValid == CallIsValid

SpecValid == InitValid /\ [][NextValid]_vars

\* C11: is_valid is true exactly when the bidder's balance is at least the
\* price, the price is positive and the quantity is absent or in (0, 1];
\* a quantity of 0 or above 1 makes the bid invalid.
C11_ValidityRule ==
    pc = "is_valid"
        => LET b == bids[1]
               funded == balance0[b.user] >= b.price
               priced == b.price > 0
               absent == Len(b.quantity) = 0
               in_range == ~absent /\ 0 < b.quantity[1] /\ b.quantity[1] <= One
           IN  /\ ret.valid <=> (funded /\ priced /\ (absent \/ in_range))
               /\ (~absent /\ (b.quantity[1] = 0 \/ b.quantity[1] > One))
                      => ~ret.valid

\* An affordable bid of positive price was rejected for its quantity of 0
C11_Witness ==
    /\ pc = "is_valid"
    /\ ~ret.valid
    /\ bids[1].quantity = Some(0)
    /\ bids[1].price > 0
    /\ balance0[bids[1].user] >= bids[1].price

----------------------------------------------------------------------------
(* helpers.rs: allocate_basket, can_fulfill;  wdp.rs: the other solvers *)

RECURSIVE SumPrices(_)
SumPrices(s) == IF s = <<>> THEN 0 ELSE Head(s).price + SumPrices(Tail(s))

Max(a, b) == IF a >= b THEN a ELSE b

\* The bundle of one bid: every basket asset scaled by the bid's quantity
bundle(bid, bsk) ==
    [j \in DOMAIN bsk.assets |->
        LET asset == bsk.assets[j]
            proportion == unwrap_or(bid.quantity, One)
            quantity == (asset.quantity * proportion) \div One
            value == (asset.price * quantity) \div One
        IN  AssetInfo(asset.asset, quantity, value)]

\* allocate_basket keeping the first bundle of a bidder
RECURSIVE allocate_basket_first_wins(_, _)
allocate_basket_first_wins(bs, bsk) ==
    IF bs = <<>> THEN EmptyMap
    ELSE (Head(bs).user :> bundle(Head(bs), bsk))
             @@ allocate_basket_first_wins(Tail(bs), bsk)

\* allocation.insert(bid.user.id, allocated_assets) for every bid in order
RECURSIVE allocate_basket(_, _)
allocate_basket(bs, bsk) ==
    IF bs = <<>> THEN EmptyMap
    ELSE
      LET n == Len(bs)
      IN  (bs[n].user :> bundle(bs[n], bsk))
              @@ allocate_basket(SubSeq(bs, 1, n - 1), bsk)

\* The aggregate demand of a bid set stays within the supply of every asset
can_fulfill(solution, bsk) ==
    \A j \in DOMAIN bsk.assets :
        LET RECURSIVE demand(_)
            demand(bs) ==
                IF bs = <<>> THEN 0
                ELSE bid_demand(Head(bs), bsk.assets[j]) + demand(Tail(bs))
        IN  demand(solution) <= bsk.assets[j].quantity

\* Iterator::max_by: the last of the elements of greatest price
RECURSIVE max_by_price(_, _)
max_by_price(s, best) ==
    IF s = <<>> THEN best
    ELSE IF best = None \/ ~(Head(s).price < best[1].price)
    THEN max_by_price(Tail(s), Some(Head(s)))
    ELSE max_by_price(Tail(s), best)

solve_xor_first(bs, bsk, bal) ==
    LET valid_bids == filter_valid_bids(bs, bsk, bal)
    IN  IF valid_bids = <<>> THEN None ELSE Some(Head(valid_bids))

solve_xor(bs, bsk, bal) ==
    max_by_price(filter_valid_bids(bs, bsk, bal), None)

solve_or_capacity(bs, bsk, bal) ==
    LET selected == maximize_welfare_cca(bs, bsk, bal).selected_bids
    IN  [bids |-> selected, allocation |-> allocate_basket(selected, bsk)]

solve_or(bs, bsk, bal) ==
    LET valid_bids == filter_valid_bids(bs, bsk, bal)
    IN  [bids |-> valid_bids, allocation |-> allocate_basket(valid_bids, bsk)]

\* maximize_welfare_vcg with the capacity-aware selection
maximize_welfare_vcg_capacity(bs, bsk, bal) ==
    LET greedy == maximize_welfare_cca(bs, bsk, bal)
    IN  [selected_bids |-> greedy.selected_bids,
         total_value |-> greedy.total_value]

maximize_welfare_vcg(bs, bsk, bal) ==
    LET valid_bids == filter_valid_bids(bs, bsk, bal)
    IN  [selected_bids |-> valid_bids, total_value |-> SumPrices(valid_bids)]

\* recursive_solve; level counts from 1, best is the accumulator handed on
RECURSIVE recursive_solve(_, _, _, _, _, _)
recursive_solve(vb, bsk, current_solution, best_solution, current_value, level) ==
    IF level = Len(vb) + 1 \/ ~can_fulfill(current_solution, bsk)
    THEN IF current_value > best_solution.value
         THEN [bids |-> current_solution, value |-> current_value]
         ELSE best_solution
    ELSE
      \* the branch without bids[level] first, then the branch with it
      recursive_solve(vb, bsk, Append(current_solution, vb[level]),
                      recursive_solve(vb, bsk, current_solution,
                                      best_solution, current_value, level + 1),
                      current_value + vb[level].price, level + 1)

branch_and_bound(bs, bsk, bal) ==
    recursive_solve(filter_valid_bids(bs, bsk, bal), bsk, <<>>,
                    [bids |-> <<>>, value |-> 0], 0, 1)

\* basket.assets.iter().map(|a| a.quantity).sum()
RECURSIVE available_quantity(_)
available_quantity(assets) ==
    IF assets = <<>> THEN 0
    ELSE Head(assets).quantity + available_quantity(Tail(assets))

\* bid_quantity <= available_quantity
dp_takes(bid, bsk) ==
    unwrap_or(bid.quantity, One) <= available_quantity(bsk.assets)

\* dp[i][j] after the loops; row 0 and column 0 stay 0.0
RECURSIVE dp(_, _, _, _)
dp(vb, bsk, i, j) ==
    IF i = 0 \/ j = 0 THEN 0
    ELSE IF dp_takes(vb[i], bsk)
    THEN dp(vb, bsk, i - 1, j - 1) + vb[i].price
    ELSE dp(vb, bsk, i - 1, j)

\* selected_bids receives valid_bids[i - 1] once for every j of the inner
\* loop
dynamic_programming(bs, bsk, bal) ==
    LET valid_bids == filter_valid_bids(bs, bsk, bal)
        n == Len(valid_bids)
        visited == [c \in 1..(n * n) |-> valid_bids[((c - 1) \div n) + 1]]
    IN  [selected_bids |-> SelectSeq(visited, LAMBDA bid : dp_takes(bid, bsk)),
         total_value |-> dp(valid_bids, bsk, n, n)]

----------------------------------------------------------------------------
(* vcg_auction.rs: VCGAuction *)

\* payment_of charging the bid's own price
payment_of_first_price(bs, bsk, winning_bid, total_welfare, bal) ==
    winning_bid.price

payment_of_unclamped(bs, bsk, winning_bid, total_welfare, bal) ==
    LET remaining_bids ==
            SelectSeq(bs, LAMBDA bid : bid.user # winning_bid.user)
        welfare_without_bidder ==
            maximize_welfare_vcg(remaining_bids, bsk, bal).total_value
    IN  welfare_without_bidder - (total_welfare - winning_bid.price)

\* The payment of one winning bid
payment_of(bs, bsk, winning_bid, total_welfare, bal) ==
    LET remaining_bids ==
            SelectSeq(bs, LAMBDA bid : bid.user # winning_bid.user)
        welfare_without_bidder ==
            maximize_welfare_vcg(remaining_bids, bsk, bal).total_value
        payment == welfare_without_bidder
                   - (total_welfare - winning_bid.price)
    IN  Max(payment, 0)

\* payments.insert(winning_bid.user.id, payment) for every winning bid
RECURSIVE compute_payments(_, _, _, _, _)
compute_payments(bs, bsk, winning, total_welfare, bal) ==
    IF winning = <<>> THEN EmptyMap
    ELSE
      LET n == Len(winning)
      IN  (winning[n].user
              :> payment_of(bs, bsk, winning[n], total_welfare, bal))
          @@ compute_payments(bs, bsk, SubSeq(winning, 1, n - 1),
                              total_welfare, bal)

----------------------------------------------------------------------------
(* Specification SpecSolvers: one call of a solver, or of the VCG          *)
(* run_auction, on a bid list and a basket                                 *)

\* setup_sample_data of wdp.rs
SampleBids ==
    << Bid(1, 1, 60000, Some(One)),
       Bid(2, 1, 70000, Some(150)),
       Bid(3, 1, 80000, Some(200)) >>

SampleData ==
    /\ bids = SampleBids
    /\ basket = TestBasket
    /\ balance0 = <<1000000, 2000000, 3000000>>

SolverPool == BidPool \cup {Bid(3, 1, 80000, Some(200))}

InitSolvers ==
    /\ balance0 \in BalanceChoices
    /\ balance = balance0
    /\ bids \in BoundedSeq(SolverPool, MaxBids)
    /\ basket \in Baskets
    /\ pc = "call"
    /\ NoSettlement
    /\ NoRound

CallFilterValidBids ==
    Returns("filter_valid_bids", filter_valid_bids(bids, basket, balance))

CallSolveXor == Returns("solve_xor", solve_xor(bids, basket, balance))

CallSolveOr == Returns("solve_or", solve_or(bids, basket, balance))

CallMaximizeWelfareVcg ==
    Returns("maximize_welfare_vcg",
            maximize_welfare_vcg(bids, basket, balance))

CallMaximizeWelfareCca ==
    Returns("maximize_welfare_cca",
            maximize_welfare_cca(bids, basket, balance))

CallBranchAndBound ==
    Returns("branch_and_bound", branch_and_bound(bids, basket, balance))

CallDynamicProgramming ==
    Returns("dynamic_programming",
            dynamic_programming(bids, basket, balance))

\* allocate_basket on the bid list as the list of winning bids
CallAllocateBasket ==
    Returns("allocate_basket", [allocation |-> allocate_basket(bids, basket)])

\* CombiClockAuction::allocate_assets on the bid list, for a price table
CallAllocateAssets ==
    \E final_prices \in PriceTables(basket) :
        Returns("allocate_assets",
                [final_prices |-> final_prices,
                 allocation |-> allocate_assets(bids, basket, final_prices)])

\* VCGAuction::run_auction; last_round keeps what it computed before the
\* settlement
VcgRunAuction ==
    LET welfare == maximize_welfare_vcg(bids, basket, balance)
        winners == welfare.selected_bids
        total_welfare == welfare.total_value
        payments == compute_payments(bids, basket, winners, total_welfare,
                                     balance)
        allocation == allocate_basket(winners, basket)
        \* winning_bids_owned and its clone hold a handle each
        str == [u \in UserIds |-> strong[u] + 2 * CountUser(winners, u)]
        result == clear_winning_bids(winners, balance, str)
    IN  /\ pc = "call"
        /\ last_round' = [kind |-> "vcg", winning_bids |-> winners,
                          total_welfare |-> total_welfare,
                          payments |-> payments, allocation |-> allocation]
        /\ winning_bids' = winners
        /\ users' = result.users
        /\ balance' = result.balance
        /\ outcome' = result.outcome
        /\ k' = result.k
        /\ IF result.outcome = "ok"
           THEN /\ pc' = "returned"
                /\ ret' = [winning_bids |-> winners,
                           allocation |-> allocation,
                           payments |-> payments,
                           result |-> UsersMap(result)]
                /\ strong' = result.strong
           ELSE /\ pc' = "panicked"
                /\ ret' = EmptyMap
                /\ strong' = [u \in UserIds |->
                                 CountUser(bids, u) + handles[u]]
        /\ UNCHANGED <<balance0, handles, bids, basket, initial_prices,
                       price_increment, max_rounds, prices, active_bidders,
                       best_bids, best_allocation, round, evals>>

NextSolvers ==
    \/ CallFilterValidBids
    \/ CallSolveXor
    \/ CallSolveOr
    \/ CallMaximizeWelfareVcg
    \/ CallMaximizeWelfareCca
    \/ CallBranchAndBound
    \/ CallDynamicProgramming
    \/ CallAllocateBasket
    \/ CallAllocateAssets
    \/ VcgRunAuction

SpecSolvers == InitSolvers /\ [][NextSolvers]_vars

----------------------------------------------------------------------------
(* Claims about the solvers *)

\* The positions of the bids that are for the basket and pass is_valid
ValidIdx ==
    {i \in DOMAIN bids :
        bids[i].basket_id = basket.id /\ is_valid(bids[i], balance)}

\* s lists the bids at the positions P, in input order
ListsInOrder(s, P) ==
    /\ Len(s) = Cardinality(P)
    /\ \E idx \in [DOMAIN s -> P] :
          /\ \A a, b \in DOMAIN s : a < b => idx[a] < idx[b]
          /\ \A a \in DOMAIN s : s[a] = bids[idx[a]]

\* C12: filter_valid_bids returns exactly the input bids whose basket_id is
\* the basket's id and that pass is_valid, in their input order; the others
\* are dropped and the call returns a list for every input.
C12_FilterKeepsValidInOrder ==
    pc = "filter_valid_bids" => ListsInOrder(ret, ValidIdx)

C12_Witness ==
    /\ pc = "filter_valid_bids"
    /\ Len(bids) = 3
    /\ Len(ret) = 1
    /\ \E i \in DOMAIN bids : bids[i].basket_id # basket.id
    /\ \E i \in DOMAIN bids :
          bids[i].basket_id = basket.id /\ ~is_valid(bids[i], balance)

\* Three valid bids priced 60000, 70000 and 80000 (Scenario 2)
ThreeValidBids ==
    /\ bids = << Bid(1, 1, 60000, Some(50)),
                 Bid(2, 1, 70000, Some(75)),
                 Bid(3, 1, 80000, Some(50)) >>
    /\ balance0 = <<1000000, 2000000, 3000000>>

FractionOfSupply(i, j) ==
    LET fraction == IF bids[i].quantity = <<>> THEN One
                    ELSE bids[i].quantity[1]
    IN  (fraction * basket.assets[j].quantity) \div One

RECURSIVE SumOver(_, _)
SumOver(S, f) ==
    IF S = {} THEN 0
    ELSE LET x == CHOOSE x \in S : TRUE IN f[x] + SumOver(S \ {x}, f)

\* The positions accepted among the first n bids, by the rule of C14
RECURSIVE AcceptedUpTo(_)
AcceptedUpTo(n) ==
    IF n = 0 THEN {}
    ELSE
      LET earlier == AcceptedUpTo(n - 1)
          fits(j) ==
              LET demand == [i \in earlier |-> FractionOfSupply(i, j)]
              IN  FractionOfSupply(n, j)
                      <= basket.assets[j].quantity - SumOver(earlier, demand)
      IN  IF /\ n \in ValidIdx
             /\ \A i \in earlier : bids[i].user # bids[n].user
             /\ \A j \in DOMAIN basket.assets : fits(j)
          THEN earlier \cup {n}
          ELSE earlier

C16_Scenario3TwoAccepted ==
    (pc = "maximize_welfare_cca" /\ SampleData) =>
        /\ ret.selected_bids = <<bids[1], bids[2]>>
        /\ ret.total_value = 130000

\* The bids at the positions P demand no more than the supply of any asset
Feasible(P) ==
    \A j \in DOMAIN basket.assets :
        SumOver(P, [i \in P |-> FractionOfSupply(i, j)])
            <= basket.assets[j].quantity

TotalPrice(P) == SumOver(P, [i \in P |-> bids[i].price])

\* C17: branch_and_bound returns a subset of the valid bids whose aggregate
\* demand is within the supply of every asset and whose total price is the
\* greatest over all such subsets (the empty set with value 0 when no other
\* subset is feasible).
C17_BranchAndBoundFeasibleOptimum ==
    pc = "branch_and_bound" =>
        \E P \in SUBSET ValidIdx :
            /\ ListsInOrder(ret.bids, P)
            /\ Feasible(P)
            /\ ret.value = TotalPrice(P)
            /\ \A Q \in SUBSET ValidIdx :
                  Feasible(Q) => TotalPrice(Q) <= ret.value

C19_NaiveWelfareAcceptsAll ==
    /\ pc = "maximize_welfare_vcg" =>
          /\ ListsInOrder(ret.selected_bids, ValidIdx)
          /\ ret.total_value = TotalPrice(ValidIdx)
          /\ SampleData =>
                /\ Len(ret.selected_bids) = 3
                /\ ret.total_value = 210000
    /\ pc \in {"returned", "panicked"} =>
          /\ ListsInOrder(last_round.winning_bids, ValidIdx)
          /\ last_round.total_welfare = TotalPrice(ValidIdx)

\* The welfare of the valid bids of the bidders other than u
WelfareWithout(u) == TotalPrice({i \in ValidIdx : bids[i].user # u})

\* C20: every payment in the map the VCG run_auction computes, and returns
\* when it returns, is at least 0 and at most the welfare computed without
\* that bidder.
C20_PaymentsWithinBounds ==
    pc \in {"returned", "panicked"} =>
        /\ \A u \in DOMAIN last_round.payments :
              /\ last_round.payments[u] >= 0
              /\ last_round.payments[u] <= WelfareWithout(u)
        /\ DOMAIN last_round.payments = BidderIds(last_round.winning_bids)
        /\ pc = "returned" => ret.payments = last_round.payments

\* Payments computed for two bidders, one of them with two winning bids
C20_Witness ==
    /\ pc \in {"returned", "panicked"}
    /\ Cardinality(DOMAIN last_round.payments) = 2
    /\ Len(last_round.winning_bids) = 3
    /\ \E u \in DOMAIN last_round.payments : WelfareWithout(u) > 0

\* C21: for each winning bid of the VCG run_auction, the payment recorded
\* for its bidder is max(0, W_without - (W_total - price)), with W_total the
\* naive welfare of all bids, W_without the naive welfare without every bid
\* of that bidder, and price the price of that winning bid.
C21_PaymentIsWelfareDifferential ==
    pc \in {"returned", "panicked"} =>
        \A a \in DOMAIN last_round.winning_bids :
            LET w == last_round.winning_bids[a]
                differential ==
                    WelfareWithout(w.user) - (TotalPrice(ValidIdx) - w.price)
            IN  /\ w.user \in DOMAIN last_round.payments
                /\ last_round.payments[w.user] =
                       (IF differential > 0 THEN differential ELSE 0)

\* A bidder with two winning bids of different prices, and another winner
C21_Witness ==
    /\ pc \in {"returned", "panicked"}
    /\ \E a, b \in DOMAIN last_round.winning_bids :
          /\ last_round.winning_bids[a].user = last_round.winning_bids[b].user
          /\ last_round.winning_bids[a].price
                 # last_round.winning_bids[b].price
    /\ \E u \in DOMAIN last_round.payments : WelfareWithout(u) > 0

\* Quantity fraction q of the bid at position i times the quantity of
\* every basket asset whose name is in names, in basket order
ScaledQuantities(i, names) ==
    LET priced == SelectSeq(basket.assets, LAMBDA a : a.asset \in names)
        q == IF bids[i].quantity = <<>> THEN One ELSE bids[i].quantity[1]
    IN  [j \in DOMAIN priced |->
            [asset |-> priced[j].asset,
             quantity |-> (priced[j].quantity * q) \div One]]

\* The assets and quantities of an allocation entry
QuantitiesOf(entry) ==
    [j \in DOMAIN entry |->
        [asset |-> entry[j].asset, quantity |-> entry[j].quantity]]

\* C22: for every winning bid with quantity fraction q passed to
\* allocate_basket, the allocation of its bidder holds one AssetInfo per
\* basket asset, in basket order, with the asset's quantity times q; also
\* when a bidder holds several winning bids.
C22_AllocationPerWinningBid ==
    pc = "allocate_basket" =>
        \A i \in DOMAIN bids :
            /\ bids[i].user \in DOMAIN ret.allocation
            /\ QuantitiesOf(ret.allocation[bids[i].user])
                   = ScaledQuantities(i, AssetNames(basket))

\* The position of the last bid of bidder u
LastBidOf(u) ==
    CHOOSE i \in DOMAIN bids :
        bids[i].user = u /\ \A n \in DOMAIN bids : n > i => bids[n].user # u

\* C30: the allocation built by allocate_basket, and by the allocate_assets
\* of the clock auction, has exactly one entry per distinct bidder id of the
\* given bids, and the entry is the bundle of that bidder's last bid in list
\* order.
C30_AllocationKeepsLastBundle ==
    /\ pc = "allocate_basket" =>
          /\ DOMAIN ret.allocation = {bids[i].user : i \in DOMAIN bids}
          /\ \A u \in DOMAIN ret.allocation :
                QuantitiesOf(ret.allocation[u])
                    = ScaledQuantities(LastBidOf(u), AssetNames(basket))
    /\ pc = "allocate_assets" =>
          /\ DOMAIN ret.allocation = {bids[i].user : i \in DOMAIN bids}
          /\ \A u \in DOMAIN ret.allocation :
                QuantitiesOf(ret.allocation[u])
                    = ScaledQuantities(LastBidOf(u), DOMAIN ret.final_prices)

\* A bidder whose earlier bid asks for another quantity than its last bid,
\* and a second bidder
C30_Witness ==
    /\ pc = "allocate_basket"
    /\ Cardinality(DOMAIN ret.allocation) = 2
    /\ \E i \in DOMAIN bids :
          /\ i < LastBidOf(bids[i].user)
          /\ bids[i].quantity # bids[LastBidOf(bids[i].user)].quantity

----------------------------------------------------------------------------
(* Frame properties of run_auction, checked under Spec *)

\* C23: no step of a run of the clock auction changes the basket: its
\* stored prices and quantities are after every round, and at every return,
\* what they were before the call; price discovery writes the price table.
C23_BasketNeverRepriced ==
    [][basket' = basket]_vars

\* A round has raised a price of the table above the basket's stored price
C23_Witness ==
    /\ round >= 1
    /\ \E j \in DOMAIN basket.assets :
          /\ basket.assets[j].asset \in DOMAIN prices
          /\ prices[basket.assets[j].asset] > basket.assets[j].price

\* The step evaluates the bids of a round
EvaluatesRound == evals' = evals + 1 /\ last_round'.kind # "exit"

\* C29: the list of valid bids is the same in every round of a run, whatever
\* the price table has become, and the eligible-bidder set does not change
\* once the activity rule of the first round has been applied.
C29_ValidBidsSameEveryRound ==
    [][ /\ (EvaluatesRound /\ evals >= 1)
            => last_round'.valid_bids = last_round.valid_bids
        /\ round >= 1 => active_bidders' = active_bidders ]_vars

\* A third round evaluated at raised prices after a bidder lost eligibility
C29_Witness ==
    /\ evals >= 3
    /\ last_round.valid_bids # <<>>
    /\ active_bidders # BidderIds(bids)
    /\ \E a \in DOMAIN prices : prices[a] > initial_prices[a]

----------------------------------------------------------------------------
(* Further properties of the VCG run_auction, checked under SpecSolvers *)

\* C27: every payment the VCG run_auction computes, and returns when it
\* returns, is exactly 0, because the naive welfare without a bidder never
\* exceeds the total welfare minus that bidder's winning price.
C27_PaymentsAreZero ==
    pc \in {"returned", "panicked"} =>
        /\ \A u \in DOMAIN last_round.payments : last_round.payments[u] = 0
        /\ \A a \in DOMAIN last_round.winning_bids :
              WelfareWithout(last_round.winning_bids[a].user)
                  <= last_round.total_welfare
                     - last_round.winning_bids[a].price
        /\ pc = "returned" =>
              \A u \in DOMAIN ret.payments : ret.payments[u] = 0

\* Three bidders win with different prices
C27_Witness ==
    /\ pc \in {"returned", "panicked"}
    /\ Cardinality(DOMAIN last_round.payments) = 3
    /\ Cardinality({last_round.winning_bids[a].price :
                       a \in DOMAIN last_round.winning_bids}) >= 2

----------------------------------------------------------------------------
(* dynamic_programming, checked under SpecSolvers *)

\* C26: dynamic_programming returns winning bids none of which appears more
\* than once (the bids of distinct positions of the input, in input order)
\* and a total value that is the sum of their prices; on the sample data of
\* wdp.rs it returns 2 winning bids with total value 130000.
C26_DynamicProgrammingSelection ==
    pc = "dynamic_programming" =>
        /\ \E P \in SUBSET ValidIdx : ListsInOrder(ret.selected_bids, P)
        /\ ret.total_value = SumPrices(ret.selected_bids)
        /\ SampleData =>
              /\ Len(ret.selected_bids) = 2
              /\ ret.total_value = 130000

----------------------------------------------------------------------------
(* Settlement inside the auctions *)

\* C24: balances change only in settlement: a round that does not end the
\* clock auction leaves every balance unchanged, and the step that settles
\* withdraws the bid price once per settled bid (for a batch every bid of
\* which is affordable when it is processed).
C24_OneWithdrawalPerWinningBid ==
    [][ /\ pc' = "loop" => balance' = balance
        /\ (pc' # "loop" /\ AllAffordable(winning_bids', balance))
              => \A u \in UserIds :
                     balance'[u] = balance[u] - PricesOf(winning_bids', u) ]_vars

C28_SettlesAtBidPrice ==
    (pc \in {"returned", "panicked"} /\ AllAffordable(winning_bids, balance0))
        => /\ pc = "returned"
           /\ DOMAIN ret.result = BidderIds(winning_bids)
           /\ \A u \in DOMAIN ret.result :
                  ret.result[u] = balance0[u] - PricesOf(winning_bids, u)

====
